---- MODULE Spec2Model ----
(***************************************************************************)
(* Model of seispy/image.py: the Image and Patch classes and the decoder   *)
(* read_SW4_image.                                                         *)
(*                                                                         *)
(* Conventions.                                                            *)
(*  - Python's None is the empty tuple for a numeric or array attribute    *)
(*    (a set attribute x is <<x>>) and the string "None" for a string one. *)
(*  - File offsets are counted in 4-byte words from the end of the image   *)
(*    header record.  A trailing fraction of a word can never complete an  *)
(*    item, so a file of B bytes behaves as one of B \div 4 words.         *)
(*  - Patch.extent holds h / 2.0; every coordinate of an extent is stored  *)
(*    multiplied by two so that it stays an integer.                       *)
(*  - Sample values are not stored: a data array is the place of its       *)
(*    samples in the stream (off, count), its shape and its memory order   *)
(*    ("C" as read, "F" once transposed).  Header fields                   *)
(*    that no operation of this module branches on (time, coordinate,      *)
(*    mode, gridinfo, creation_time) are left out of the records.          *)
(***************************************************************************)
EXTENDS Integers, Sequences, FiniteSets, TLC

VARIABLES pc, argFilename, argConfig, argStf, file, f, image, patch_info, i,
          exc, warned

vars == <<pc, argFilename, argConfig, argStf, file, f, image, patch_info, i,
          exc, warned>>

None == <<>>

Some(x) == <<x>>

Val(o) == o[1]

Min(a, b) == IF a <= b THEN a ELSE b

(***************************************************************************)
(* Bounds of the model.                                                    *)
(***************************************************************************)
MaxBodyWords == 18

MaxSources == 2

MaxH == 3

MaxZ == 2

MaxN == 3

DimValues == {-1, 0, 1, 2}

(***************************************************************************)
(* seispy.header: record layout and lookup tables.                         *)
(***************************************************************************)
\* SW4_PATCH_HEADER_DTYPE: h, zmin (8 bytes each), ib, ni, jb, nj (4 each).
PatchHeaderWords == 8

\* SW4_IMAGE_PRECISION: the precision codes that resolve to a sample type.
SW4_IMAGE_PRECISION == {4, 8}

\* Width in words of one sample of the type a known precision code names.
ItemWords(code) == code \div 4

\* SW4_SOURCE_TIME_FUNCTION_TYPE: source type name -> 0 | 1.  A name that
\* is not a key raises KeyError.
SW4_SOURCE_TIME_FUNCTION_TYPE ==
  [n \in {"GaussianInt", "Gaussian"} |-> IF n = "GaussianInt" THEN 0 ELSE 1]

SourceTypeNames == {"GaussianInt", "Gaussian", "Unlisted"}

(***************************************************************************)
(* numpy calls made by the decoder.                                        *)
(***************************************************************************)
\* np.fromfile(f, dtype, count): the number of items returned when `avail`
\* whole items remain.  A negative count asks for all that remain; a short
\* read returns what there is, without an error.
FromFileCount(avail, count) ==
  IF count < 0 THEN avail ELSE Min(count, avail)

\* The cursor after that call: past the items read, or at the end of the
\* file after a short read.
FromFilePos(p, end, size, count) ==
  LET avail == (end - p) \div size
  IN  IF count < 0 THEN p + avail * size
      ELSE IF count <= avail THEN p + count * size
      ELSE end

\* Mutant of Reshape: the lengths asked for are taken as the shape without
\* comparing their product with the number of items.
ReshapeUnchecked(size, rows, cols) ==
  IF rows < 0 \/ cols < 0 THEN None ELSE <<rows, cols>>

\* data.reshape(rows, cols) of an array of `size` items: the new shape, or
\* None when reshape raises ValueError.  One negative length is inferred.
Reshape(size, rows, cols) ==
  IF rows < 0 /\ cols < 0 THEN None
  ELSE IF rows < 0
       THEN IF cols > 0 /\ size % cols = 0
            THEN <<size \div cols, cols>> ELSE None
  ELSE IF cols < 0
       THEN IF rows > 0 /\ size % rows = 0
            THEN <<rows, size \div rows>> ELSE None
  ELSE IF rows * cols = size THEN <<rows, cols>> ELSE None

(***************************************************************************)
(* class Image                                                             *)
(***************************************************************************)
\* `if config:` -- None and an empty AttribDict are false.
Truthy(config) == config # None /\ ~Val(config).empty

\* Truth value of a string argument.
StrTruthy(s) == s \notin {"None", ""}

\* Image.source_time_function_type for a given _config: the exception it
\* raises ("none" when it returns) and the value it returns.
SourceTimeFunctionType(config) ==
  IF ~Truthy(config) THEN [exc |-> "none", val |-> "None"]
  ELSE IF ~Val(config).hasSource THEN [exc |-> "AttributeError", val |-> "None"]
  ELSE IF Val(config).source = <<>> THEN [exc |-> "IndexError", val |-> "None"]
  ELSE LET type == Val(config).source[1]
       IN  IF type \notin DOMAIN SW4_SOURCE_TIME_FUNCTION_TYPE
           THEN [exc |-> "KeyError", val |-> "None"]
           ELSE LET stf_type == SW4_SOURCE_TIME_FUNCTION_TYPE[type]
                IN  [exc |-> "none",
                     val |-> IF stf_type = 0 THEN "displacement"
                             ELSE IF stf_type = 1 THEN "velocity"
                             ELSE "None"]

\* The value of source_time_function_type after the `if config:` block.
SelectedStf(config, stf) ==
  IF Truthy(config) THEN SourceTimeFunctionType(config).val ELSE stf

\* Whether __init__ issues the "Overriding user specified ..." warning.
OverrideWarning(config, stf) ==
  /\ Truthy(config)
  /\ SourceTimeFunctionType(config).exc = "none"
  /\ StrTruthy(stf)
  /\ StrTruthy(SourceTimeFunctionType(config).val)
  /\ stf # SourceTimeFunctionType(config).val

\* The exception Image.__init__ raises, "none" when it returns.
ImageInitExc(config, stf) ==
  IF Truthy(config) /\ SourceTimeFunctionType(config).exc # "none"
  THEN SourceTimeFunctionType(config).exc
  ELSE IF SelectedStf(config, stf) \in {"displacement", "velocity"}
       THEN "none"
       ELSE "ValueError"

\* if config is not None and not isinstance(config, AttribDict):
\*     config = read_input_file(config)
ReadInputFile(config) ==
  IF config # None /\ ~Val(config).isAttribDict
  THEN Some([Val(config) EXCEPT !.isAttribDict = TRUE])
  ELSE config

\* The Image object __init__ leaves when it returns.
ImageNew(config, stf) ==
  [ _config           |-> ReadInputFile(config),
    _mode_dict        |-> IF SelectedStf(config, stf) = "displacement"
                          THEN "SW4_IMAGE_MODE_DISPLACEMENT"
                          ELSE "SW4_IMAGE_MODE_VELOCITY",
    filename          |-> "None",
    _precision        |-> None,
    _number_of_patches |-> None,
    _plane            |-> None,
    patches           |-> <<>> ]

\* The name `image` before the constructor has returned.
NoImage ==
  [ _config |-> None, _mode_dict |-> "unset", filename |-> "None",
    _precision |-> None, _number_of_patches |-> None, _plane |-> None,
    patches |-> <<>> ]

\* Image.is_cross_section: True, False, or None when no branch returns.
IsCrossSection(img) ==
  IF img._plane # None /\ Val(img._plane) \in {0, 1} THEN "True"
  ELSE IF img._plane # None /\ Val(img._plane) = 2 THEN "False"
  ELSE "None"

\* Image.type
Type(img) ==
  IF IsCrossSection(img) = "True" THEN "cross-section" ELSE "map"

\* Image.number_of_patches
NumberOfPatches(img) == Len(img.patches)

\* Image.precision raises KeyError unless the code is a key of the table.
PrecisionRaises(img) == Val(img._precision) \notin SW4_IMAGE_PRECISION

(***************************************************************************)
(* class Patch                                                             *)
(***************************************************************************)
\* Mutant of PatchNew: patches numbered from 1.
PatchNewOneBased(number, img) ==
  [ number |-> number + 1, h |-> None, zmin |-> None, ib |-> None,
    ni |-> None, jb |-> None, nj |-> None, data |-> None, extent |-> None ]

\* Patch.__init__
PatchNew(number, img) ==
  [ number |-> number, h |-> None, zmin |-> None, ib |-> None, ni |-> None,
    jb |-> None, nj |-> None, data |-> None, extent |-> None ]

\* Patch._set_header
SetHeader(p, header) ==
  [p EXCEPT !.h = Some(header.h), !.zmin = Some(header.zmin),
            !.ib = Some(header.ib), !.ni = Some(header.ni),
            !.jb = Some(header.jb), !.nj = Some(header.nj)]

\* The cross-section branch of Patch._set_data (coordinates doubled).
CrossSectionExtent(h, zmin, ni, nj) ==
  << 0 - h,
     2 * ((ni - 1) * h) + h,
     2 * zmin - h,
     2 * (zmin + (nj - 1) * h) + h >>

\* Mutant of MapExtent: the axes of the stored grid, not of the transposed
\* one.
MapExtentUntransposed(h, zmin, ni, nj) ==
  << 0 - h,
     2 * ((ni - 1) * h) + h,
     0 - h,
     2 * ((nj - 1) * h) + h >>

\* The map branch of Patch._set_data (coordinates doubled).
MapExtent(h, zmin, ni, nj) ==
  << 0 - h,
     2 * ((nj - 1) * h) + h,
     0 - h,
     2 * ((ni - 1) * h) + h >>

\* data.T
Transpose(data) ==
  [data EXCEPT !.shape = <<data.shape[2], data.shape[1]>>,
               !.order = IF data.order = "C" THEN "F" ELSE "C"]

\* Patch._set_data up to the statistics: data and extent.
SetData(p, data, img) ==
  IF IsCrossSection(img) = "True"
  THEN [p EXCEPT !.data = Some(data),
                 !.extent = CrossSectionExtent(Val(p.h), Val(p.zmin),
                                               Val(p.ni), Val(p.nj))]
  ELSE [p EXCEPT !.data = Some(Transpose(data)),
                 !.extent = MapExtent(Val(p.h), Val(p.zmin),
                                      Val(p.ni), Val(p.nj))]

\* data.min() raises ValueError on an array without items.
SetDataRaises(data) == data.count = 0

(***************************************************************************)
(* Inputs: the arguments of a call and the file a filename names.          *)
(***************************************************************************)
\* A configuration: None, or an AttribDict (given, or read from a path by
\* read_input_file) that is empty, has no `source` entry, or lists sources
\* by their type names.
Sources == UNION {[1..n -> SourceTypeNames] : n \in 0..MaxSources}

Configs ==
  {None} \cup
  { Some([isAttribDict |-> a, empty |-> e, hasSource |-> hs, source |-> s]) :
      a \in BOOLEAN, e \in BOOLEAN, hs \in BOOLEAN, s \in Sources }

WellFormedConfig(c) ==
  c # None =>
    /\ Val(c).empty => ~Val(c).hasSource
    /\ ~Val(c).hasSource => Val(c).source = <<>>

StfArgs == {"None", "", "displacement", "velocity", "acceleration"}

PrecisionCodes == {0, 4, 8}

PlaneCodes == {0, 1, 2, 3}

PatchCounts == -1 .. (MaxBodyWords \div PatchHeaderWords) + 1

\* The patch header records of the files of the decoder's runs.
PatchHeaders ==
  [h : {1}, zmin : {0}, ib : {1}, ni : DimValues, jb : {1}, nj : DimValues]

\* How many leading records of a body of `words` words a header patch count
\* of `n` makes np.fromfile decode as patch headers.
HeaderRecords(words, n) == FromFileCount(words \div PatchHeaderWords, n)

NoFile ==
  [exists |-> FALSE, hdrOK |-> FALSE, precision |-> 0, npatches |-> 0,
   plane |-> 0, words |-> 0, recs |-> <<>>]

\* A file that ends inside the image header record.
ShortFile == [NoFile EXCEPT !.exists = TRUE]

\* A file holding a whole image header followed by `words` words.  recs
\* are the leading 8-word records of the body that the decoder parses as
\* patch headers; what follows them is sample data.
ImageFile(pr, n, pl, w, r) ==
  [exists |-> TRUE, hdrOK |-> TRUE, precision |-> pr, npatches |-> n,
   plane |-> pl, words |-> w, recs |-> r]

Filenames == {"random", "None", "image.sw4img", "image.dat"}

Closed == [state |-> "none", hdr |-> FALSE, pos |-> 0]

(***************************************************************************)
(* read_SW4_image                                                          *)
(***************************************************************************)
Init ==
  /\ pc = "start"
  /\ argFilename \in Filenames
  /\ argConfig = None
  /\ argStf \in {"None", "displacement"}
  /\ \/ file \in {NoFile, ShortFile}
     \/ \E pr \in PrecisionCodes, n \in PatchCounts, pl \in PlaneCodes,
           w \in 0..MaxBodyWords :
          \E r \in [1..HeaderRecords(w, n) -> PatchHeaders] :
             file = ImageFile(pr, n, pl, w, r)
  /\ (argFilename \in {"random", "None"} => file = NoFile)
  /\ f = Closed
  /\ image = NoImage
  /\ patch_info = <<>>
  /\ i = 0
  /\ exc = "none"
  /\ warned = {}

\* image = Image(source_time_function_type=..., config=config)
\* image.filename = filename
Construct ==
  /\ pc = "start"
  /\ IF ImageInitExc(argConfig, argStf) # "none"
     THEN /\ exc' = ImageInitExc(argConfig, argStf)
          /\ pc' = "raised"
          /\ UNCHANGED <<image, warned>>
     ELSE /\ image' = [ImageNew(argConfig, argStf) EXCEPT !.filename = argFilename]
          /\ warned' = IF OverrideWarning(argConfig, argStf)
                       THEN warned \cup {"override"} ELSE warned
          /\ pc' = "dispatch"
          /\ exc' = "none"
  /\ UNCHANGED <<argFilename, argConfig, argStf, file, f, patch_info, i>>

\* _create_random_SW4_patch
RandomPatch ==
  [ number |-> 0, h |-> Some(100), zmin |-> Some(0), ib |-> Some(1),
    ni |-> Some(100), jb |-> Some(1), nj |-> Some(200),
    data |-> Some([off |-> 0, count |-> 100 * 200, shape |-> <<100, 200>>,
                   order |-> "C"]),
    extent |-> <<2 * 0, 2 * (200 * 100), 2 * (0 + 100 * 100), 2 * 0>> ]

\* _create_random_SW4_image: a second Image, built without the config.
RandomImage(stf) ==
  [ImageNew(None, stf) EXCEPT !._number_of_patches = Some(1),
                              !._precision = Some(4),
                              !.patches = <<RandomPatch>>]

\* if filename is 'random': image = _create_random_SW4_image(...)
ReadRandom ==
  /\ pc = "dispatch"
  /\ argFilename = "random"
  /\ IF ImageInitExc(None, argStf) # "none"
     THEN /\ exc' = ImageInitExc(None, argStf)
          /\ pc' = "raised"
          /\ UNCHANGED image
     ELSE /\ image' = RandomImage(argStf)
          /\ pc' = "returned"
          /\ UNCHANGED exc
  /\ UNCHANGED <<argFilename, argConfig, argStf, file, f, patch_info, i, warned>>

\* elif filename is None: pass
ReadNone ==
  /\ pc = "dispatch"
  /\ argFilename = "None"
  /\ pc' = "returned"
  /\ UNCHANGED <<argFilename, argConfig, argStf, file, f, image, patch_info,
                 i, exc, warned>>

EndsWithSw4img(name) == name = "image.sw4img"

\* The else branch up to `with open(image.filename, 'rb') as f:`.
OpenFile ==
  /\ pc = "dispatch"
  /\ argFilename \notin {"random", "None"}
  /\ warned' = IF EndsWithSw4img(argFilename) THEN warned
               ELSE warned \cup {"extension"}
  /\ IF file.exists
     THEN /\ f' = [state |-> "open", hdr |-> FALSE, pos |-> 0]
          /\ pc' = "read_header"
          /\ UNCHANGED exc
     ELSE /\ exc' = "IOError"
          /\ pc' = "raised"
          /\ UNCHANGED f
  /\ UNCHANGED <<argFilename, argConfig, argStf, file, image, patch_info, i>>

\* image._read_header(f)
ReadHeader ==
  /\ pc = "read_header"
  /\ f' = [f EXCEPT !.hdr = TRUE]
  /\ IF file.hdrOK
     THEN /\ image' = [image EXCEPT !._precision = Some(file.precision),
                                    !._number_of_patches = Some(file.npatches),
                                    !._plane = Some(file.plane)]
          /\ pc' = "read_patch_info"
          /\ UNCHANGED exc
     ELSE /\ exc' = "IndexError"
          /\ pc' = "with_exit"
          /\ UNCHANGED image
  /\ UNCHANGED <<argFilename, argConfig, argStf, file, patch_info, i, warned>>

\* patch_info = np.fromfile(f, SW4_PATCH_HEADER_DTYPE, self._number_of_patches)
ReadPatchInfo ==
  /\ pc = "read_patch_info"
  /\ LET n == HeaderRecords(file.words - f.pos, Val(image._number_of_patches))
     IN  /\ patch_info' = SubSeq(file.recs, 1, n)
         /\ f' = [f EXCEPT !.pos = FromFilePos(f.pos, file.words, PatchHeaderWords,
                                               Val(image._number_of_patches))]
         /\ pc' = IF n = 0 THEN "with_exit" ELSE "read_patch"
  /\ i' = 0
  /\ UNCHANGED <<argFilename, argConfig, argStf, file, image, exc, warned>>

\* data = np.fromfile(f, self.precision, patch.ni*patch.nj): the items read,
\* as their place in the stream.
ReadSamples(img, p, cursor, end) ==
  [ off   |-> cursor,
    count |-> FromFileCount((end - cursor) \div ItemWords(Val(img._precision)),
                            Val(p.ni) * Val(p.nj)),
    shape |-> None,
    order |-> "C" ]

\* One pass of the loop of _read_patches, in the order of its statements:
\* the exception that ends it ("none" if the patch is appended), the cursor
\* it leaves and the patch it builds.
PatchPass(img, header, number, cursor, end) ==
  LET p0    == SetHeader(PatchNew(number, img), header)
      data  == ReadSamples(img, p0, cursor, end)
      after == FromFilePos(cursor, end, ItemWords(Val(img._precision)),
                           Val(p0.ni) * Val(p0.nj))
      shape == Reshape(data.count, Val(p0.nj), Val(p0.ni))
  IN  IF PrecisionRaises(img)
      THEN [exc |-> "KeyError", pos |-> cursor, patch |-> p0]
      ELSE IF shape = None
      THEN [exc |-> "ValueError", pos |-> after, patch |-> p0]
      ELSE [exc   |-> IF SetDataRaises(data) THEN "ValueError" ELSE "none",
            pos   |-> after,
            patch |-> SetData(p0, [data EXCEPT !.shape = shape], img)]

\* for i, header in enumerate(patch_info): ... self.patches.append(patch)
ReadPatch ==
  /\ pc = "read_patch"
  /\ i < Len(patch_info)
  /\ LET r == PatchPass(image, patch_info[i + 1], i, f.pos, file.words)
     IN  /\ f' = [f EXCEPT !.pos = r.pos]
         /\ exc' = r.exc
         /\ IF r.exc # "none"
            THEN /\ pc' = "with_exit"
                 /\ UNCHANGED <<image, i>>
            ELSE /\ image' = [image EXCEPT !.patches = Append(@, r.patch)]
                 /\ i' = i + 1
                 /\ pc' = IF i + 1 = Len(patch_info) THEN "with_exit"
                          ELSE "read_patch"
  /\ UNCHANGED <<argFilename, argConfig, argStf, file, patch_info, warned>>

\* Mutant of ExitFile: f.close() as the last statement of the block, which
\* an exception skips.
ExitFileOnSuccess(fo, e) ==
  IF e = "none" THEN [fo EXCEPT !.state = "closed"] ELSE fo

\* What leaving the `with` block does to the file object, whether the block
\* ended normally or by an exception `e`.
ExitFile(fo, e) == [fo EXCEPT !.state = "closed"]

\* Leaving the `with` block: f is closed, then `return image` or the
\* pending exception reaches the caller.
WithExit ==
  /\ pc = "with_exit"
  /\ f' = ExitFile(f, exc)
  /\ pc' = IF exc = "none" THEN "returned" ELSE "raised"
  /\ UNCHANGED <<argFilename, argConfig, argStf, file, image, patch_info, i,
                 exc, warned>>

Next ==
  \/ Construct
  \/ ReadRandom
  \/ ReadNone
  \/ OpenFile
  \/ ReadHeader
  \/ ReadPatchInfo
  \/ ReadPatch
  \/ WithExit

Spec == Init /\ [][Next]_vars

(***************************************************************************)
(* Image.__init__ on its own: every configuration and every explicit       *)
(* source_time_function_type.                                              *)
(***************************************************************************)
InitImage ==
  /\ pc = "new"
  /\ argFilename = "None"
  /\ argConfig \in {c \in Configs : WellFormedConfig(c)}
  /\ argStf \in StfArgs
  /\ file = NoFile
  /\ f = Closed
  /\ image = NoImage
  /\ patch_info = <<>>
  /\ i = 0
  /\ exc = "none"
  /\ warned = {}

\* Image(config, source_time_function_type)
ImageInit ==
  /\ pc = "new"
  /\ IF ImageInitExc(argConfig, argStf) # "none"
     THEN /\ exc' = ImageInitExc(argConfig, argStf)
          /\ pc' = "raised"
          /\ UNCHANGED <<image, warned>>
     ELSE /\ image' = ImageNew(argConfig, argStf)
          /\ warned' = IF OverrideWarning(argConfig, argStf)
                       THEN warned \cup {"override"} ELSE warned
          /\ pc' = "constructed"
          /\ UNCHANGED exc
  /\ UNCHANGED <<argFilename, argConfig, argStf, file, f, patch_info, i>>

NextImage == ImageInit

SpecImage == InitImage /\ [][NextImage]_vars

(***************************************************************************)
(* Patch._set_header and Patch._set_data on their own: one patch of an     *)
(* image with any plane code, any cell size and origin, and a data array   *)
(* of nj rows of ni columns.                                               *)
(***************************************************************************)
PatchHeaderInputs ==
  [h : 0..MaxH, zmin : -MaxZ..MaxZ, ib : {1}, ni : 0..MaxN, jb : {1},
   nj : 0..MaxN]

InitPatch ==
  /\ pc = "patch_new"
  /\ argFilename = "None"
  /\ argConfig = None
  /\ argStf = "displacement"
  /\ file = NoFile
  /\ f = Closed
  /\ \E pl \in {None} \cup {Some(c) : c \in PlaneCodes} :
       image = [ImageNew(None, "displacement") EXCEPT
                  !._plane = pl,
                  !.patches = <<PatchNew(0, ImageNew(None, "displacement"))>>]
  /\ \E header \in PatchHeaderInputs : patch_info = <<header>>
  /\ i = 0
  /\ exc = "none"
  /\ warned = {}

\* patch._set_header(header)
PatchSetHeader ==
  /\ pc = "patch_new"
  /\ image' = [image EXCEPT !.patches[1] = SetHeader(@, patch_info[1])]
  /\ pc' = "patch_header_set"
  /\ UNCHANGED <<argFilename, argConfig, argStf, file, f, patch_info, i, exc,
                 warned>>

\* patch._set_data(data), data being nj rows of ni columns
PatchSetData ==
  /\ pc = "patch_header_set"
  /\ LET p    == image.patches[1]
         data == [off |-> 0, count |-> Val(p.nj) * Val(p.ni),
                  shape |-> <<Val(p.nj), Val(p.ni)>>, order |-> "C"]
     IN  /\ image' = [image EXCEPT !.patches[1] = SetData(p, data, image)]
         /\ exc' = IF SetDataRaises(data) THEN "ValueError" ELSE "none"
         /\ pc' = IF SetDataRaises(data) THEN "raised" ELSE "patch_data_set"
  /\ UNCHANGED <<argFilename, argConfig, argStf, file, f, patch_info, i, warned>>

NextPatch == PatchSetHeader \/ PatchSetData

SpecPatch == InitPatch /\ [][NextPatch]_vars

(***************************************************************************)
(* Properties of read_SW4_image (Spec).                                    *)
(***************************************************************************)
\* read_SW4_image has returned an Image decoded from a file.
Decoded == pc = "returned" /\ f.state = "closed"

\* The precision code of the file resolves to a sample type.
KnownPrecision == file.precision \in SW4_IMAGE_PRECISION

\* C1: whenever read_SW4_image returns an Image for a file, the number of
\* patches in image.patches equals the patch count of the image header
\* (stated for the files whose precision code is known).
C1_PatchesMatchHeaderCount ==
  (Decoded /\ KnownPrecision) =>
     NumberOfPatches(image) = Val(image._number_of_patches)

\* The file holds fewer whole patch header records than its header declares.
HeadersTruncated ==
  /\ file.hdrOK
  /\ file.npatches >= 0
  /\ file.words \div PatchHeaderWords < file.npatches

\* C2: if the stream ends before all declared patch header records have
\* been read, read_SW4_image returns no Image (stated for the files whose
\* precision code is known).
C2_TruncatedHeadersFail ==
  (HeadersTruncated /\ KnownPrecision) => pc # "returned"

\* The patch about to be read has ni, nj > 0 and the file ends before the
\* last of its ni*nj samples.
TruncatedBlock ==
  /\ pc = "read_patch"
  /\ ~PrecisionRaises(image)
  /\ patch_info[i + 1].ni > 0
  /\ patch_info[i + 1].nj > 0
  /\ (file.words - f.pos) \div ItemWords(Val(image._precision))
       < patch_info[i + 1].ni * patch_info[i + 1].nj

\* C3: if the file ends in the middle of the sample block of any patch with
\* ni, nj > 0, the pass over that patch raises, no patch is appended, and
\* the exception reaches the caller instead of an Image.
C3_TruncatedBlockFails ==
  /\ [][TruncatedBlock =>
          /\ exc' # "none"
          /\ pc' = "with_exit"
          /\ image'.patches = image.patches]_vars
  /\ [][(pc = "with_exit" /\ exc # "none") => pc' = "raised"]_vars
  /\ [](pc = "returned" => exc = "none")

\* The second patch's block is cut short: the first patch was appended, and
\* some but not all samples of the second remained.
C3_Witness ==
  /\ pc = "raised"
  /\ exc = "ValueError"
  /\ Len(image.patches) = 1
  /\ Len(patch_info) >= 2
  /\ patch_info[2].ni > 0 /\ patch_info[2].nj > 0
  /\ LET d     == Val(image.patches[1].data)
         width == ItemWords(Val(image._precision))
         left  == (file.words - (d.off + d.count * width)) \div width
     IN  0 < left /\ left < patch_info[2].ni * patch_info[2].nj

\* C4: a precision code that resolves to no sample type makes the decode
\* fail before any patch header record is consumed and for every patch
\* count: no Image is returned.
C4_InvalidPrecisionFailsFirst ==
  (image._precision # None /\ PrecisionRaises(image)) =>
     /\ pc # "returned"
     /\ f.pos = 0

\* C5: no Image is returned when the header patch count is negative or a
\* patch header has ni <= 0 or nj <= 0, and no more records are read than
\* the header declares (stated for the files whose precision code is
\* known).
C5_InvalidDimensionsFail ==
  (Decoded /\ KnownPrecision) =>
    /\ Val(image._number_of_patches) >= 0
    /\ Len(patch_info) <= Val(image._number_of_patches)
    /\ \A k \in 1..Len(image.patches) :
         Val(image.patches[k].ni) > 0 /\ Val(image.patches[k].nj) > 0

\* C7: is_cross_section is true for plane codes 0 and 1, false for 2 and
\* fails otherwise, so `type` is 'map' and a patch is transposed only for
\* plane code 2.
C7_PlaneCodeChecked ==
  /\ (image._plane # None /\ Val(image._plane) \in {0, 1})
        => IsCrossSection(image) = "True"
  /\ image._plane = Some(2) => IsCrossSection(image) = "False"
  /\ (image._plane # None /\ Type(image) = "map") => image._plane = Some(2)
  /\ \A k \in 1..Len(image.patches) :
       Val(image.patches[k].data).order = "F" => image._plane = Some(2)

\* C8: the file is opened immediately before the header is read, and it is
\* closed whenever read_SW4_image has returned or raised.
C8_HandleReleased ==
  /\ [][(f.state # "open" /\ f'.state = "open") => pc' = "read_header"]_vars
  /\ [](pc \in {"returned", "raised"} => f.state # "open")

\* A sample block of a later patch failed and the file is closed.
C8_Witness ==
  /\ pc = "raised"
  /\ exc = "ValueError"
  /\ Len(image.patches) >= 1
  /\ f.state = "closed"

RECURSIVE DeclaredSamples(_, _)
\* ni*nj summed over the first k records.
DeclaredSamples(recs, k) ==
  IF k = 0 THEN 0
  ELSE DeclaredSamples(recs, k - 1) + recs[k].ni * recs[k].nj

\* Where the k-th sample block of the stream starts: after all the patch
\* header records and the blocks of the patches before it.
BlockStart(k) ==
  HeaderRecords(file.words, file.npatches) * PatchHeaderWords
    + DeclaredSamples(file.recs, k - 1) * ItemWords(file.precision)

\* C10: the stream is consumed forward only: the image header, then all
\* patch header records, then one sample block per patch; in the returned
\* Image the k-th patch has number k (from 0), carries the k-th patch
\* header and holds the k-th sample block.
C10_ForwardPatchOrder ==
  /\ [][f'.pos >= f.pos /\ (f.hdr => f'.hdr)]_vars
  /\ [](pc = "read_patch_info" => (f.hdr /\ f.pos = 0))
  /\ [](pc = "read_patch" =>
          f.pos >= HeaderRecords(file.words, file.npatches) * PatchHeaderWords)
  /\ [](Decoded =>
          \A k \in 1..Len(image.patches) :
            LET p == image.patches[k]
            IN  /\ p.number = k - 1
                /\ file.recs[k] = [h |-> Val(p.h), zmin |-> Val(p.zmin),
                                   ib |-> Val(p.ib), ni |-> Val(p.ni),
                                   jb |-> Val(p.jb), nj |-> Val(p.nj)]
                /\ Val(p.data).off = BlockStart(k)
                /\ (Val(p.ni) > 0 /\ Val(p.nj) > 0)
                      => Val(p.data).count = Val(p.ni) * Val(p.nj))

\* Two patches with different headers were decoded and returned.
C10_Witness ==
  /\ Decoded
  /\ Len(image.patches) = 2
  /\ file.recs[1] # file.recs[2]
  /\ Val(image.patches[2].data).off > Val(image.patches[1].data).off

(***************************************************************************)
(* Properties of Image.__init__ (SpecImage).                               *)
(***************************************************************************)
\* The quantity kind a configuration declares, "None" if it declares none.
DeclaredKind(config) ==
  IF config = None \/ Val(config).empty \/ ~Val(config).hasSource
     \/ Val(config).source = <<>> THEN "None"
  ELSE IF Val(config).source[1] = "GaussianInt" THEN "displacement"
  ELSE IF Val(config).source[1] = "Gaussian" THEN "velocity"
  ELSE "None"

ModeTable(kind) ==
  IF kind = "displacement" THEN "SW4_IMAGE_MODE_DISPLACEMENT"
  ELSE "SW4_IMAGE_MODE_VELOCITY"

\* C6: the quantity table is that of the kind the configuration declares,
\* with a warning when an explicit kind disagrees; else that of the explicit
\* kind; construction fails only if neither is displacement or velocity.
C6_QuantityKindSelection ==
  pc # "new" =>
    IF DeclaredKind(argConfig) \in {"displacement", "velocity"}
    THEN /\ pc = "constructed"
         /\ image._mode_dict = ModeTable(DeclaredKind(argConfig))
         /\ (StrTruthy(argStf) /\ argStf # DeclaredKind(argConfig))
               => "override" \in warned
    ELSE IF argStf \in {"displacement", "velocity"}
    THEN /\ pc = "constructed"
         /\ image._mode_dict = ModeTable(argStf)
    ELSE pc = "raised"

(***************************************************************************)
(* Properties of Patch._set_data (SpecPatch).                              *)
(***************************************************************************)
\* C9: for a patch with ni, nj > 0 (coordinates doubled): a cross-section
\* has extent (-h/2, (ni-1)h + h/2, zmin - h/2, zmin + (nj-1)h + h/2), of
\* width ni*h; a map has extent (-h/2, (nj-1)h + h/2, -h/2, (ni-1)h + h/2),
\* whatever zmin, of width nj*h.
C9_Extent ==
  pc = "patch_data_set" =>
    LET p    == image.patches[1]
        h    == Val(p.h)
        zmin == Val(p.zmin)
        ni   == Val(p.ni)
        nj   == Val(p.nj)
        e    == p.extent
    IN  (ni > 0 /\ nj > 0) =>
          IF Type(image) = "cross-section"
          THEN /\ e = << -h, (2 * ni - 1) * h, 2 * zmin - h,
                         2 * zmin + (2 * nj - 1) * h >>
               /\ e[2] - e[1] = 2 * (ni * h)
          ELSE /\ e = << -h, (2 * nj - 1) * h, -h, (2 * ni - 1) * h >>
               /\ e[2] - e[1] = 2 * (nj * h)

\* A map patch with ni # nj, a cell size and a non-zero zmin.
C9_Witness ==
  /\ pc = "patch_data_set"
  /\ image._plane = Some(2)
  /\ Val(image.patches[1].ni) # Val(image.patches[1].nj)
  /\ Val(image.patches[1].h) > 1
  /\ Val(image.patches[1].zmin) # 0

====
